---- MODULE Spec2Model ----
(***************************************************************************)
(* Model of src/libsodium/randombytes/sysrandom/randombytes_sysrandom.c:  *)
(* the process-wide SysRandom singleton, the POSIX device walk and drain   *)
(* loop, the Windows cryptographic-context variant, and the operations     *)
(* stir, buf, random, uniform, close, implementation_name and the factory. *)
(*                                                                         *)
(* Every C function is a small set of actions, one per statement that      *)
(* touches shared state or asks the operating system for something; calls  *)
(* push the caller's continuation on a per-thread stack.  The operating    *)
(* system (access, open, read, close, CryptAcquireContext, CryptGenRandom, *)
(* CryptReleaseContext) is the environment: each of its answers is a       *)
(* nondeterministic choice among the answers the interface allows.         *)
(*                                                                         *)
(* TLC's integers are 32-bit signed, so a uint32_t is scaled to            *)
(* sizeof(uint32_t) bytes of ByteBits bits each; all arithmetic on it is   *)
(* reduced modulo 2^(4*ByteBits) exactly where C reduces modulo 2^32.      *)
(***************************************************************************)
EXTENDS Integers, Sequences, FiniteSets, TLC

\* ------------------------------------------------------------------ bounds
\* bits of a byte (CHAR_BIT scaled down; a uint32_t has 4 * ByteBits bits)
ByteBits == 1
\* largest size a public caller passes to buf
MaxSize == 2
\* opens / context acquires the OS grants in one run; further ones fail
MaxOpens == 2

\* ------------------------------------------------------- program constants
\* sizeof r in randombytes_sysrandom()
SizeofR == 4
\* the initial (and "absent") descriptor
NoFd == -1

RECURSIVE Pow2(_)
Pow2(n) == IF n = 0 THEN 1 ELSE 2 * Pow2(n - 1)

ByteMod == Pow2(ByteBits)
Byte == 0 .. (ByteMod - 1)
WordMod == Pow2(SizeofR * ByteBits)
Word == 0 .. (WordMod - 1)

\* A byte of a buffer that no read has written yet (no value of Byte).
Unwritten == ByteMod

Thread == {"main", "other"}

\* The three builds of the file: POSIX, POSIX with USE_BLOCKING_RANDOM, _WIN32.
Builds == {"posix", "posix_blocking", "win32"}

\* static const char * const devices[] (NULL-terminated) for a build
devices(b) ==
    IF b = "posix_blocking"
    THEN <<"/dev/random">>
    ELSE <<"/dev/arandom", "/dev/urandom", "/dev/random">>

\* The record the factory returns: each field names the function it binds.
ImplementationRecord ==
    [implementation_name |-> "randombytes_sysrandom_implementation_name",
     random  |-> "randombytes_sysrandom",
     stir    |-> "randombytes_sysrandom_stir",
     uniform |-> "randombytes_sysrandom_uniform",
     buf     |-> "randombytes_sysrandom_buf",
     close   |-> "randombytes_sysrandom_close"]

NoRecord ==
    [implementation_name |-> "", random |-> "", stir |-> "",
     uniform |-> "", buf |-> "", close |-> ""]

VARIABLES
    build,      \* which build of the file runs (fixed at compile time)
    stream,     \* static SysRandom stream
    handles,    \* OS: open handle number -> the open it came from (id, device)
    nopen,      \* OS: number of successful open / acquire calls so far
    source,     \* OS: the entropy source: free, or scripted with the bytes left
    aborted,    \* abort() was called: the process is gone
    pc,         \* per thread: the statement it is at
    stack,      \* per thread: continuations of the callers
    op,         \* per thread: the public operation in progress or last returned
    size,       \* buf: const size_t size
    out,        \* buf: the caller's buffer (buf_), Unwritten where not yet written
    srfd,       \* safe_read: const int fd
    count,      \* safe_read: size_t count
    off,        \* safe_read: buf - buf_
    readnb,     \* safe_read: ssize_t readnb
    errno,      \* errno after the last read
    srret,      \* value safe_read / CryptGenRandom returned to buf
    r,          \* random / uniform: uint32_t r
    upper_bound,\* uniform: const uint32_t upper_bound
    min,        \* uniform: uint32_t min
    device,     \* random_dev_open: index of *device in devices
    ret,        \* integer result of the last public call (close, random, uniform)
    retname,    \* string result of implementation_name
    retrec,     \* record result of the factory
    delivered,  \* history: bytes the source delivered to the current buf, in order
    readdesc,   \* history: ids of the opens the current call's reads went to
    probes,     \* history: the answers of access() in the current device walk
                \* (_WIN32: the answer of CryptAcquireContext)
    acquired,   \* history: acquisitions begun by the current public call
    osclose,    \* history: the OS's answer to the current call's close / release
    prevclose   \* history: what the call before the current one was, if a close

osvars == <<handles, nopen, source>>
bufvars == <<size, out, srfd, count, off, readnb, errno, srret, delivered, readdesc>>
univars == <<r, upper_bound, min>>
retvars == <<ret, retname, retrec>>
histvars == <<probes, acquired, osclose, prevclose>>
vars == <<build, stream, handles, nopen, source, aborted, pc, stack, op, size, out, srfd,
          count, off, readnb, errno, srret, r, upper_bound, min, device, ret,
          retname, retrec, delivered, readdesc, probes, acquired, osclose,
          prevclose>>

Upd(f, t, v) == [f EXCEPT ![t] = v]

\* ------------------------------------------------------ operating system
Live(h) == \E e \in handles : e.h = h
EntryOf(h) == CHOOSE e \in handles : e.h = h

\* POSIX open() returns the lowest descriptor not in use; the Windows handle
\* of a context is likewise taken as the lowest unused one above NULL.
LowestFree(base) ==
    CHOOSE n \in base .. (base + Cardinality(handles)) :
        /\ ~Live(n)
        /\ \A m \in base .. (n - 1) : Live(m)

\* an entropy source that may deliver any bytes
FreeSource == [scripted |-> FALSE, bytes |-> <<>>]

\* static SysRandom stream = { .random_data_source_fd = -1, .initialized = 0 }
StreamInit ==
    [random_data_source_fd |-> NoFd, initialized |-> FALSE, hcrypt_prov |-> 0]

\* the program at its start, before any call, whatever the source is
ProgramStart ==
    /\ build \in Builds
    /\ stream = StreamInit
    /\ handles = {}
    /\ nopen = 0
    /\ aborted = FALSE
    /\ pc = [t \in Thread |-> "idle"]
    /\ stack = [t \in Thread |-> <<>>]
    /\ op = [t \in Thread |-> "none"]
    /\ size = [t \in Thread |-> 0]
    /\ out = [t \in Thread |-> <<>>]
    /\ srfd = [t \in Thread |-> NoFd]
    /\ count = [t \in Thread |-> 0]
    /\ off = [t \in Thread |-> 0]
    /\ readnb = [t \in Thread |-> 0]
    /\ errno = [t \in Thread |-> "0"]
    /\ srret = [t \in Thread |-> 0]
    /\ r = [t \in Thread |-> 0]
    /\ upper_bound = [t \in Thread |-> 0]
    /\ min = [t \in Thread |-> 0]
    /\ device = [t \in Thread |-> 1]
    /\ ret = [t \in Thread |-> 0]
    /\ retname = [t \in Thread |-> ""]
    /\ retrec = [t \in Thread |-> NoRecord]
    /\ delivered = [t \in Thread |-> <<>>]
    /\ readdesc = [t \in Thread |-> {}]
    /\ probes = [t \in Thread |-> <<>>]
    /\ acquired = [t \in Thread |-> 0]
    /\ osclose = [t \in Thread |-> "none"]
    /\ prevclose = [t \in Thread |-> "none"]

Init ==
    /\ ProgramStart
    /\ source = FreeSource

\* ------------------------------------------------------------ control flow
\* what the call that just returned was, seen from the next call: a close
\* that returned 0, a close that returned -1, or something else
PrevClose(o, rv) ==
    IF o # "close" THEN "none" ELSE IF rv = 0 THEN "returned 0" ELSE "returned -1"

\* A public function is called by an idle thread: its frame starts fresh.
Enter(t, o, label, sz, ub) ==
    /\ ~aborted
    /\ pc[t] = "idle"
    /\ pc' = Upd(pc, t, label)
    /\ stack' = Upd(stack, t, <<>>)
    /\ op' = Upd(op, t, o)
    /\ size' = Upd(size, t, sz)
    /\ out' = Upd(out, t, [i \in 1 .. sz |-> Unwritten])
    /\ srfd' = Upd(srfd, t, NoFd)
    /\ count' = Upd(count, t, 0)
    /\ off' = Upd(off, t, 0)
    /\ readnb' = Upd(readnb, t, 0)
    /\ errno' = Upd(errno, t, "0")
    /\ srret' = Upd(srret, t, 0)
    /\ r' = Upd(r, t, 0)
    /\ upper_bound' = Upd(upper_bound, t, ub)
    /\ min' = Upd(min, t, 0)
    /\ device' = Upd(device, t, 1)
    /\ ret' = Upd(ret, t, 0)
    /\ retname' = Upd(retname, t, "")
    /\ retrec' = Upd(retrec, t, NoRecord)
    /\ delivered' = Upd(delivered, t, <<>>)
    /\ readdesc' = Upd(readdesc, t, {})
    /\ probes' = Upd(probes, t, <<>>)
    /\ acquired' = Upd(acquired, t, 0)
    /\ osclose' = Upd(osclose, t, "none")
    /\ prevclose' = Upd(prevclose, t, PrevClose(op[t], ret[t]))
    /\ UNCHANGED <<build, stream, handles, nopen, source, aborted>>

At(t, label) == ~aborted /\ pc[t] = label

\* call f, continuing at cont when it returns
Call(t, f, cont) ==
    /\ pc' = Upd(pc, t, f)
    /\ stack' = Upd(stack, t, <<cont>> \o stack[t])

Goto(t, label) ==
    /\ pc' = Upd(pc, t, label)
    /\ stack' = stack

\* return to the caller's continuation, or to the public caller
Return(t) ==
    IF stack[t] = <<>>
    THEN /\ pc' = Upd(pc, t, "idle")
         /\ stack' = stack
    ELSE /\ pc' = Upd(pc, t, Head(stack[t]))
         /\ stack' = Upd(stack, t, Tail(stack[t]))

\* abort(): the process ends, no thread takes another step
Abort(t) ==
    /\ aborted' = TRUE
    /\ pc' = Upd(pc, t, "aborted")
    /\ stack' = stack

\* ------------------------------------------------------------ public calls
\* upper bounds the callers pass: the degenerate ones, small ones, one above
\* half the word range and the largest
UpperBounds == {0, 1, 2, 3, 7, 10, (WordMod \div 2) + 1, WordMod - 1}

call_stir(t) == Enter(t, "stir", "stir", 0, 0)
call_buf(t) == \E sz \in 0 .. MaxSize : Enter(t, "buf", "buf", sz, 0)
call_random(t) == Enter(t, "random", "random", 0, 0)
call_uniform(t) == \E ub \in UpperBounds : Enter(t, "uniform", "uniform", 0, ub)
call_close(t) == Enter(t, "close", "close", 0, 0)
call_implementation_name(t) == Enter(t, "name", "implementation_name", 0, 0)
call_implementation(t) == Enter(t, "implementation", "implementation", 0, 0)

\* ---------------------------------------------- randombytes_sysrandom_stir
\* stir_test without the test of stream.initialized
stir_test_always_init(t) ==
    /\ At(t, "stir")
    /\ Call(t, "init", "stir_set")
    /\ device' = Upd(device, t, 1)
    /\ probes' = Upd(probes, t, <<>>)
    /\ acquired' = Upd(acquired, t, acquired[t] + 1)
    /\ UNCHANGED <<build, stream, osvars, aborted, op, bufvars, univars, retvars,
                   osclose, prevclose>>

\* if (stream.initialized == 0) { randombytes_sysrandom_init(); ...
\* (init starts its walk at the head of devices)
stir_test(t) ==
    /\ At(t, "stir")
    /\ IF stream.initialized = FALSE
       THEN /\ Call(t, "init", "stir_set")
            /\ device' = Upd(device, t, 1)
            /\ probes' = Upd(probes, t, <<>>)
            /\ acquired' = Upd(acquired, t, acquired[t] + 1)
       ELSE /\ Return(t)
            /\ UNCHANGED <<device, probes, acquired>>
    /\ UNCHANGED <<build, stream, osvars, aborted, op, bufvars, univars, retvars, osclose, prevclose>>

\* variant: stir returns without recording that the provider is initialized
stir_set_forgets(t) ==
    /\ At(t, "stir_set")
    /\ Return(t)
    /\ UNCHANGED <<build, stream, osvars, aborted, op, bufvars, univars, device, retvars,
                   histvars>>

\* ... stream.initialized = 1; }
stir_set(t) ==
    /\ At(t, "stir_set")
    /\ stream' = [stream EXCEPT !.initialized = TRUE]
    /\ Return(t)
    /\ UNCHANGED <<build, osvars, aborted, op, bufvars, univars, device, retvars, histvars>>

\* ------------------------------------ randombytes_sysrandom_stir_if_needed
stir_if_needed(t) ==
    /\ At(t, "stir_if_needed")
    /\ IF stream.initialized = FALSE
       THEN Call(t, "stir", "stir_if_needed_end")
       ELSE Return(t)
    /\ UNCHANGED <<build, stream, osvars, aborted, op, bufvars, univars, device,
                   retvars, histvars>>

stir_if_needed_end(t) ==
    /\ At(t, "stir_if_needed_end")
    /\ Return(t)
    /\ UNCHANGED <<build, stream, osvars, aborted, op, bufvars, univars, device,
                   retvars, histvars>>

\* ------------------- randombytes_sysrandom_random_dev_open and _init (POSIX)
\* access(*device, F_OK | R_OK) == 0: go on to open this device
dev_access_ok(t) ==
    /\ At(t, "init")
    /\ build # "win32"
    /\ probes' = Upd(probes, t, Append(probes[t], TRUE))
    /\ Goto(t, "dev_open")
    /\ UNCHANGED <<build, stream, osvars, aborted, op, bufvars, univars, device,
                   retvars, acquired, osclose, prevclose>>

\* the probe failed and *++device != NULL: try the next device
dev_access_next(t) ==
    /\ At(t, "init")
    /\ build # "win32"
    /\ device[t] < Len(devices(build))
    /\ probes' = Upd(probes, t, Append(probes[t], FALSE))
    /\ device' = Upd(device, t, device[t] + 1)
    /\ Goto(t, "init")
    /\ UNCHANGED <<build, stream, osvars, aborted, op, bufvars, univars,
                   retvars, acquired, osclose, prevclose>>

\* dev_access_none with init not testing the -1 it stored
dev_access_none_returns(t) ==
    /\ At(t, "init")
    /\ build # "win32"
    /\ device[t] = Len(devices(build))
    /\ probes' = Upd(probes, t, Append(probes[t], FALSE))
    /\ stream' = [stream EXCEPT !.random_data_source_fd = NoFd]
    /\ Return(t)
    /\ UNCHANGED <<build, osvars, aborted, op, bufvars, univars, device, retvars,
                   acquired, osclose, prevclose>>

\* the probe of the last device failed: random_dev_open returns -1, init
\* stores it and aborts
dev_access_none(t) ==
    /\ At(t, "init")
    /\ build # "win32"
    /\ device[t] = Len(devices(build))
    /\ probes' = Upd(probes, t, Append(probes[t], FALSE))
    /\ stream' = [stream EXCEPT !.random_data_source_fd = NoFd]
    /\ Abort(t)
    /\ UNCHANGED <<build, osvars, op, bufvars, univars, device, retvars,
                   acquired, osclose, prevclose>>

\* return open(*device, O_RDONLY) succeeded: init stores the descriptor
\* (the OS grants MaxOpens opens, then open only fails)
dev_open_ok(t) ==
    /\ At(t, "dev_open")
    /\ nopen < MaxOpens
    /\ LET fd == LowestFree(0) IN
         /\ handles' = handles \cup
                {[h |-> fd, id |-> nopen + 1, dev |-> devices(build)[device[t]]]}
         /\ stream' = [stream EXCEPT !.random_data_source_fd = fd]
    /\ nopen' = nopen + 1
    /\ Return(t)
    /\ UNCHANGED <<build, source, aborted, op, bufvars, univars, device, retvars, histvars>>

\* variant: a failed open falls through to the next device of the list
dev_open_fail_tries_next(t) ==
    /\ At(t, "dev_open")
    /\ IF device[t] < Len(devices(build))
       THEN /\ device' = Upd(device, t, device[t] + 1)
            /\ Goto(t, "init")
            /\ UNCHANGED <<stream, aborted>>
       ELSE /\ stream' = [stream EXCEPT !.random_data_source_fd = NoFd]
            /\ Abort(t)
            /\ device' = device
    /\ UNCHANGED <<build, osvars, op, bufvars, univars, retvars, histvars>>

\* open failed: init stores -1 and aborts
dev_open_fail(t) ==
    /\ At(t, "dev_open")
    /\ stream' = [stream EXCEPT !.random_data_source_fd = NoFd]
    /\ Abort(t)
    /\ UNCHANGED <<build, osvars, op, bufvars, univars, device, retvars, histvars>>

\* ------------------------------------ randombytes_sysrandom_init (_WIN32)
\* CryptAcquireContext(&stream.hcrypt_prov, ...) succeeded
acquire_context_ok(t) ==
    /\ At(t, "init")
    /\ build = "win32"
    /\ nopen < MaxOpens
    /\ LET h == LowestFree(1) IN
         /\ handles' = handles \cup {[h |-> h, id |-> nopen + 1, dev |-> "PROV_RSA_FULL"]}
         /\ stream' = [stream EXCEPT !.hcrypt_prov = h]
    /\ nopen' = nopen + 1
    /\ probes' = Upd(probes, t, Append(probes[t], TRUE))
    /\ Return(t)
    /\ UNCHANGED <<build, source, aborted, op, bufvars, univars, device, retvars, acquired,
                   osclose, prevclose>>

\* CryptAcquireContext failed: abort
acquire_context_fail(t) ==
    /\ At(t, "init")
    /\ build = "win32"
    /\ probes' = Upd(probes, t, Append(probes[t], FALSE))
    /\ Abort(t)
    /\ UNCHANGED <<build, stream, osvars, op, bufvars, univars, device, retvars,
                   acquired, osclose, prevclose>>

\* --------------------------------------------- randombytes_sysrandom_close
\* the handle close() hands to the OS: the descriptor, or the context
StreamHandle(s, b) ==
    IF b = "win32" THEN s.hcrypt_prov ELSE s.random_data_source_fd

\* CloseGate with the gate left out: the OS call is always made
CloseGate_always(s, b) == TRUE

\* the first operand of the && in close(): is there something to close?
CloseGate(s, b) ==
    IF b = "win32" THEN s.initialized # FALSE ELSE s.random_data_source_fd # NoFd

\* StreamClosed with initialized left set
StreamClosed_keeps_initialized(s, b) ==
    IF b = "win32" THEN s ELSE [s EXCEPT !.random_data_source_fd = NoFd]

\* the body of the if in close(): the state after a successful OS close
StreamClosed(s, b) ==
    IF b = "win32"
    THEN [s EXCEPT !.initialized = FALSE]
    ELSE [s EXCEPT !.random_data_source_fd = NoFd, !.initialized = FALSE]

\* close_absent with ret initialised to 0
close_absent_returns_0(t) ==
    /\ At(t, "close")
    /\ ~CloseGate(stream, build)
    /\ ret' = Upd(ret, t, 0)
    /\ Return(t)
    /\ UNCHANGED <<build, stream, osvars, aborted, op, bufvars, univars, device,
                   retname, retrec, histvars>>

\* the gate is false: the && short-circuits, no OS call, return -1
close_absent(t) ==
    /\ At(t, "close")
    /\ ~CloseGate(stream, build)
    /\ ret' = Upd(ret, t, -1)
    /\ Return(t)
    /\ UNCHANGED <<build, stream, osvars, aborted, op, bufvars, univars, device,
                   retname, retrec, histvars>>

\* close(fd) == 0 / CryptReleaseContext succeeded: clear the state, return 0
close_ok(t) ==
    /\ At(t, "close")
    /\ CloseGate(stream, build)
    /\ Live(StreamHandle(stream, build))
    /\ handles' = handles \ {EntryOf(StreamHandle(stream, build))}
    /\ osclose' = Upd(osclose, t, "ok")
    /\ stream' = StreamClosed(stream, build)
    /\ ret' = Upd(ret, t, 0)
    /\ Return(t)
    /\ UNCHANGED <<build, nopen, source, aborted, op, bufvars, univars, device, retname,
                   retrec, probes, acquired, prevclose>>

\* close_fail with the state cleared whatever the OS answered
close_fail_clears(t) ==
    /\ At(t, "close")
    /\ CloseGate(stream, build)
    /\ handles' = handles
    /\ osclose' = Upd(osclose, t, "failed")
    /\ stream' = StreamClosed(stream, build)
    /\ ret' = Upd(ret, t, -1)
    /\ Return(t)
    /\ UNCHANGED <<build, nopen, source, aborted, op, bufvars, univars, device, retname,
                   retrec, probes, acquired, prevclose>>

\* the OS call reported failure: return -1 with the state as it was.  POSIX
\* leaves the descriptor's fate unspecified after a failed close (EINTR, EIO),
\* so it may or may not still be open; a handle that is not open fails (EBADF).
close_fail(t) ==
    /\ At(t, "close")
    /\ CloseGate(stream, build)
    /\ \/ handles' = handles
       \/ /\ Live(StreamHandle(stream, build))
          /\ handles' = handles \ {EntryOf(StreamHandle(stream, build))}
    /\ osclose' = Upd(osclose, t, "failed")
    /\ ret' = Upd(ret, t, -1)
    /\ Return(t)
    /\ UNCHANGED <<build, stream, nopen, source, aborted, op, bufvars, univars, device,
                   retname, retrec, probes, acquired, prevclose>>

\* ----------------------------------------------- randombytes_sysrandom_buf
\* randombytes_sysrandom_stir_if_needed();
buf_enter(t) ==
    /\ At(t, "buf")
    /\ Call(t, "stir_if_needed", "buf_read")
    /\ UNCHANGED <<build, stream, osvars, aborted, op, bufvars, univars, device,
                   retvars, histvars>>

\* safe_read(stream.random_data_source_fd, buf, size) is entered
buf_call_safe_read(t) ==
    /\ At(t, "buf_read")
    /\ build # "win32"
    /\ srfd' = Upd(srfd, t, stream.random_data_source_fd)
    /\ count' = Upd(count, t, size[t])
    /\ off' = Upd(off, t, 0)
    /\ Goto(t, "safe_read")
    /\ UNCHANGED <<build, stream, osvars, aborted, op, size, out, readnb, errno, srret,
                   delivered, readdesc, univars, device, retvars, histvars>>

\* byte values the entropy source delivers: the two extremes of a byte
SourceBytes == {0, ByteMod - 1}

\* the chunks of nb bytes the source can deliver next: any, or the next nb
\* bytes of the script if it has that many
SourceChunks(nb) ==
    IF source.scripted
    THEN IF nb <= Len(source.bytes) THEN {SubSeq(source.bytes, 1, nb)} ELSE {}
    ELSE [1 .. nb -> SourceBytes]

\* the source after it delivered nb bytes
SourceAfter(nb) ==
    IF source.scripted
    THEN [source EXCEPT !.bytes = SubSeq(source.bytes, nb + 1, Len(source.bytes))]
    ELSE source

\* the source has nothing more to deliver (a free source can always say so)
SourceAtEnd == source.scripted => source.bytes = <<>>

\* the open a read on descriptor fd goes to (0: the descriptor is not open)
ReadTarget(fd) == IF Live(fd) THEN EntryOf(fd).id ELSE 0

\* the buffer after a read stored chunk at buf (= buf_ + o)
WriteChunk(b, o, chunk) ==
    [i \in 1 .. Len(b) |->
        IF i > o /\ i <= o + Len(chunk) THEN chunk[i - o] ELSE b[i]]

\* CountAfter with the subtraction left out
CountAfter_unchanged(c, nb) == c

\* count -= (size_t) readnb
CountAfter(c, nb) == c - nb

\* OffAfter with the pointer left where it was
OffAfter_no_advance(o, nb) == o

\* buf += readnb
OffAfter(o, nb) == o + nb

\* read() < 0 && errno == EINTR: the inner while reads again
safe_read_eintr(t) ==
    /\ At(t, "safe_read")
    /\ Live(srfd[t])
    /\ readnb' = Upd(readnb, t, -1)
    /\ errno' = Upd(errno, t, "EINTR")
    /\ readdesc' = Upd(readdesc, t, readdesc[t] \cup {ReadTarget(srfd[t])})
    /\ Goto(t, "safe_read")
    /\ UNCHANGED <<build, stream, osvars, aborted, op, size, out, srfd, count, off,
                   srret, delivered, univars, device, retvars, histvars>>

\* read() < 0 with another errno: return readnb
\* (a scripted source does not fail; a descriptor that is not open does)
safe_read_error(t) ==
    /\ At(t, "safe_read")
    /\ Live(srfd[t]) => ~source.scripted
    /\ readnb' = Upd(readnb, t, -1)
    /\ errno' = Upd(errno, t, IF Live(srfd[t]) THEN "EIO" ELSE "EBADF")
    /\ readdesc' = Upd(readdesc, t, readdesc[t] \cup {ReadTarget(srfd[t])})
    /\ srret' = Upd(srret, t, -1)
    /\ Goto(t, "buf_check")
    /\ UNCHANGED <<build, stream, osvars, aborted, op, size, out, srfd, count, off,
                   delivered, univars, device, retvars, histvars>>

\* read() == 0: break, return buf - buf_
safe_read_eof(t) ==
    /\ At(t, "safe_read")
    /\ Live(srfd[t])
    /\ count[t] = 0 \/ SourceAtEnd
    /\ readnb' = Upd(readnb, t, 0)
    /\ readdesc' = Upd(readdesc, t, readdesc[t] \cup {ReadTarget(srfd[t])})
    /\ srret' = Upd(srret, t, off[t])
    /\ Goto(t, "buf_check")
    /\ UNCHANGED <<build, stream, osvars, aborted, op, size, out, srfd, count, off,
                   errno, delivered, univars, device, retvars, histvars>>

\* read() delivered nb > 0 bytes (never more than count): advance, and loop
\* while (count > 0), else return buf - buf_
safe_read_data(t) ==
    /\ At(t, "safe_read")
    /\ Live(srfd[t])
    /\ \E nb \in 1 .. count[t] : \E chunk \in SourceChunks(nb) :
         /\ readnb' = Upd(readnb, t, nb)
         /\ source' = SourceAfter(nb)
         /\ out' = Upd(out, t, WriteChunk(out[t], off[t], chunk))
         /\ delivered' = Upd(delivered, t, delivered[t] \o chunk)
         /\ count' = Upd(count, t, CountAfter(count[t], nb))
         /\ off' = Upd(off, t, OffAfter(off[t], nb))
         /\ IF CountAfter(count[t], nb) > 0
            THEN /\ Goto(t, "safe_read")
                 /\ UNCHANGED srret
            ELSE /\ Goto(t, "buf_check")
                 /\ srret' = Upd(srret, t, OffAfter(off[t], nb))
    /\ readdesc' = Upd(readdesc, t, readdesc[t] \cup {ReadTarget(srfd[t])})
    /\ UNCHANGED <<build, stream, handles, nopen, aborted, op, size, srfd, errno,
                   univars, device, retvars, histvars>>

\* CryptGenRandom(stream.hcrypt_prov, size, buf) filled the buffer
gen_random_ok(t) ==
    /\ At(t, "buf_read")
    /\ build = "win32"
    /\ Live(stream.hcrypt_prov)
    /\ \E chunk \in SourceChunks(size[t]) :
         /\ out' = Upd(out, t, chunk)
         /\ delivered' = Upd(delivered, t, chunk)
    /\ source' = SourceAfter(size[t])
    /\ readdesc' = Upd(readdesc, t, readdesc[t] \cup {ReadTarget(stream.hcrypt_prov)})
    /\ srret' = Upd(srret, t, 1)
    /\ Goto(t, "buf_check")
    /\ UNCHANGED <<build, stream, handles, nopen, aborted, op, size, srfd, count, off,
                   readnb, errno, univars, device, retvars, histvars>>

\* CryptGenRandom failed
gen_random_fail(t) ==
    /\ At(t, "buf_read")
    /\ build = "win32"
    /\ source.scripted => Len(source.bytes) < size[t]
    /\ readdesc' = Upd(readdesc, t, readdesc[t] \cup {ReadTarget(stream.hcrypt_prov)})
    /\ srret' = Upd(srret, t, 0)
    /\ Goto(t, "buf_check")
    /\ UNCHANGED <<build, stream, osvars, aborted, op, size, out, srfd, count, off,
                   readnb, errno, delivered, univars, device, retvars, histvars>>

\* BufFailed with the comparison weakened to "safe_read reported an error"
BufFailed_negative_only(b, rv, sz) == IF b = "win32" THEN rv = 0 ELSE rv < 0

\* BufFailed with the result of the read ignored
BufFailed_ignored(b, rv, sz) == FALSE

\* the condition under which buf aborts:
\* safe_read(...) != (ssize_t) size, or ! CryptGenRandom(...)
BufFailed(b, rv, sz) == IF b = "win32" THEN rv = 0 ELSE rv # sz

\* if (...) { abort(); }
buf_check_abort(t) ==
    /\ At(t, "buf_check")
    /\ BufFailed(build, srret[t], size[t])
    /\ Abort(t)
    /\ UNCHANGED <<build, stream, osvars, op, bufvars, univars, device, retvars, histvars>>

buf_check_return(t) ==
    /\ At(t, "buf_check")
    /\ ~BufFailed(build, srret[t], size[t])
    /\ Return(t)
    /\ UNCHANGED <<build, stream, osvars, aborted, op, bufvars, univars, device,
                   retvars, histvars>>

\* --------------------------------------------------- randombytes_sysrandom
\* the uint32_t whose object representation is the bytes b (host-endian; the
\* least significant byte first)
RECURSIVE WordOf(_)
WordOf(b) == IF b = <<>> THEN 0 ELSE Head(b) + ByteMod * WordOf(Tail(b))

\* randombytes_sysrandom_stir_if_needed();
random_enter(t) ==
    /\ At(t, "random")
    /\ Call(t, "stir_if_needed", "random_buf")
    /\ UNCHANGED <<build, stream, osvars, aborted, op, bufvars, univars, device,
                   retvars, histvars>>

\* randombytes_sysrandom_buf(&r, sizeof r);
random_call_buf(t) ==
    /\ At(t, "random_buf")
    /\ size' = Upd(size, t, SizeofR)
    /\ out' = Upd(out, t, [i \in 1 .. SizeofR |-> Unwritten])
    /\ delivered' = Upd(delivered, t, <<>>)
    /\ Call(t, "buf", "random_ret")
    /\ UNCHANGED <<build, stream, osvars, aborted, op, srfd, count, off, readnb, errno,
                   srret, readdesc, univars, device, retvars, histvars>>

\* return r; (to uniform's r = ..., or to the public caller)
random_return(t) ==
    /\ At(t, "random_ret")
    /\ r' = Upd(r, t, WordOf(out[t]))
    /\ ret' = IF stack[t] = <<>> THEN Upd(ret, t, WordOf(out[t])) ELSE ret
    /\ Return(t)
    /\ UNCHANGED <<build, stream, osvars, aborted, op, bufvars, upper_bound, min,
                   device, retname, retrec, histvars>>

\* ------------------------------------------- randombytes_sysrandom_uniform
\* UniformMin taken from the largest word instead of from the negation
UniformMin_of_max(ub) == (WordMod - 1) % ub

\* UniformMin without the remainder: the negation alone
UniformMin_negation_only(ub) == (WordMod - ub) % WordMod

\* (uint32_t) (-upper_bound % upper_bound): the unary minus is taken in
\* uint32_t, i.e. modulo the word size, before the remainder
UniformMin(ub) == ((WordMod - ub) % WordMod) % ub

\* UniformResult with the reduction left out
UniformResult_unreduced(x, ub) == x

\* r % upper_bound
UniformResult(x, ub) == x % ub

\* if (upper_bound < 2) { return 0; }
\* variant: no early return, a bound below 2 goes on to the sampling loop
uniform_degenerate_draws(t) ==
    /\ At(t, "uniform")
    /\ upper_bound[t] < 2
    /\ min' = Upd(min, t, 0)
    /\ Goto(t, "uniform_loop")
    /\ UNCHANGED <<build, stream, osvars, aborted, op, bufvars, r, upper_bound, device,
                   retvars, histvars>>

uniform_degenerate(t) ==
    /\ At(t, "uniform")
    /\ upper_bound[t] < 2
    /\ ret' = Upd(ret, t, 0)
    /\ Return(t)
    /\ UNCHANGED <<build, stream, osvars, aborted, op, bufvars, univars, device,
                   retname, retrec, histvars>>

\* min = (uint32_t) (-upper_bound % upper_bound);
uniform_min(t) ==
    /\ At(t, "uniform")
    /\ ~(upper_bound[t] < 2)
    /\ min' = Upd(min, t, UniformMin(upper_bound[t]))
    /\ Goto(t, "uniform_loop")
    /\ UNCHANGED <<build, stream, osvars, aborted, op, bufvars, r, upper_bound, device,
                   retvars, histvars>>

\* r = randombytes_sysrandom();
uniform_draw(t) ==
    /\ At(t, "uniform_loop")
    /\ Call(t, "random", "uniform_test")
    /\ UNCHANGED <<build, stream, osvars, aborted, op, bufvars, univars, device,
                   retvars, histvars>>

\* if (r >= min) { break; } ... return r % upper_bound;
uniform_accept(t) ==
    /\ At(t, "uniform_test")
    /\ r[t] >= min[t]
    /\ ret' = Upd(ret, t, UniformResult(r[t], upper_bound[t]))
    /\ Return(t)
    /\ UNCHANGED <<build, stream, osvars, aborted, op, bufvars, univars, device,
                   retname, retrec, histvars>>

\* r < min: draw again
uniform_reject(t) ==
    /\ At(t, "uniform_test")
    /\ ~(r[t] >= min[t])
    /\ Goto(t, "uniform_loop")
    /\ UNCHANGED <<build, stream, osvars, aborted, op, bufvars, univars, device,
                   retvars, histvars>>

\* ------------------------------- randombytes_sysrandom_implementation_name
implementation_name(t) ==
    /\ At(t, "implementation_name")
    /\ retname' = Upd(retname, t, "sysrandom")
    /\ Return(t)
    /\ UNCHANGED <<build, stream, osvars, aborted, op, bufvars, univars, device,
                   ret, retrec, histvars>>

\* ------------------------------------ randombytes_sysrandom_implementation
\* variant: a factory that marks the provider initialized as a side effect
implementation_initializes(t) ==
    /\ At(t, "implementation")
    /\ retrec' = Upd(retrec, t, ImplementationRecord)
    /\ stream' = [stream EXCEPT !.initialized = TRUE]
    /\ Return(t)
    /\ UNCHANGED <<build, osvars, aborted, op, bufvars, univars, device,
                   ret, retname, histvars>>

implementation(t) ==
    /\ At(t, "implementation")
    /\ retrec' = Upd(retrec, t, ImplementationRecord)
    /\ Return(t)
    /\ UNCHANGED <<build, stream, osvars, aborted, op, bufvars, univars, device,
                   ret, retname, histvars>>

\* --------------------------------------------------------- specification
Step(t) ==
    \/ call_stir(t)
    \/ call_buf(t)
    \/ call_random(t)
    \/ call_uniform(t)
    \/ call_close(t)
    \/ call_implementation_name(t)
    \/ call_implementation(t)
    \/ stir_test(t)
    \/ stir_set(t)
    \/ stir_if_needed(t)
    \/ stir_if_needed_end(t)
    \/ dev_access_ok(t)
    \/ dev_access_next(t)
    \/ dev_access_none(t)
    \/ dev_open_ok(t)
    \/ dev_open_fail(t)
    \/ acquire_context_ok(t)
    \/ acquire_context_fail(t)
    \/ close_absent(t)
    \/ close_ok(t)
    \/ close_fail(t)
    \/ buf_enter(t)
    \/ buf_call_safe_read(t)
    \/ safe_read_eintr(t)
    \/ safe_read_error(t)
    \/ safe_read_eof(t)
    \/ safe_read_data(t)
    \/ gen_random_ok(t)
    \/ gen_random_fail(t)
    \/ buf_check_abort(t)
    \/ buf_check_return(t)
    \/ random_enter(t)
    \/ random_call_buf(t)
    \/ random_return(t)
    \/ uniform_degenerate(t)
    \/ uniform_min(t)
    \/ uniform_draw(t)
    \/ uniform_accept(t)
    \/ uniform_reject(t)
    \/ implementation_name(t)
    \/ implementation(t)

\* The program used from a single thread, as the provider's contract assumes.
Next == Step("main")

Spec == Init /\ [][Next]_vars

\* ---------------------------------------- uniform as a function of samples
\* r = randombytes_sysrandom(); with the call taken as a whole: it returns
\* some word, any of them
uniform_sample(t) ==
    /\ At(t, "uniform_loop")
    /\ \E x \in Word : r' = Upd(r, t, x)
    /\ Goto(t, "uniform_test")
    /\ UNCHANGED <<build, stream, osvars, aborted, op, bufvars, upper_bound, min,
                   device, retvars, histvars>>

\* main has just called uniform(upper_bound), for any upper_bound of the type
InitUniform ==
    /\ build = "posix"
    /\ stream = StreamInit
    /\ handles = {}
    /\ nopen = 0
    /\ source = FreeSource
    /\ aborted = FALSE
    /\ pc = [t \in Thread |-> IF t = "main" THEN "uniform" ELSE "idle"]
    /\ stack = [t \in Thread |-> <<>>]
    /\ op = [t \in Thread |-> IF t = "main" THEN "uniform" ELSE "none"]
    /\ size = [t \in Thread |-> 0]
    /\ out = [t \in Thread |-> <<>>]
    /\ srfd = [t \in Thread |-> NoFd]
    /\ count = [t \in Thread |-> 0]
    /\ off = [t \in Thread |-> 0]
    /\ readnb = [t \in Thread |-> 0]
    /\ errno = [t \in Thread |-> "0"]
    /\ srret = [t \in Thread |-> 0]
    /\ r = [t \in Thread |-> 0]
    /\ \E ub \in Word : upper_bound = [t \in Thread |-> IF t = "main" THEN ub ELSE 0]
    /\ min = [t \in Thread |-> 0]
    /\ device = [t \in Thread |-> 1]
    /\ ret = [t \in Thread |-> 0]
    /\ retname = [t \in Thread |-> ""]
    /\ retrec = [t \in Thread |-> NoRecord]
    /\ delivered = [t \in Thread |-> <<>>]
    /\ readdesc = [t \in Thread |-> {}]
    /\ probes = [t \in Thread |-> <<>>]
    /\ acquired = [t \in Thread |-> 0]
    /\ osclose = [t \in Thread |-> "none"]
    /\ prevclose = [t \in Thread |-> "none"]

NextUniform ==
    \/ uniform_degenerate("main")
    \/ uniform_min("main")
    \/ uniform_sample("main")
    \/ uniform_accept("main")
    \/ uniform_reject("main")

\* uniform over every upper bound and every sample of the word type
SpecUniform == InitUniform /\ [][NextUniform]_vars

\* ------------------------------------------------- scenario S2 of the spec
\* the object representation of the uint32_t x (inverse of WordOf)
BytesOf(x) == [i \in 1 .. SizeofR |-> (x \div Pow2(ByteBits * (i - 1))) % ByteMod]

\* the 32-bit samples of scenario S2: 0x00000000, 0xFFFFFFFF, 3, 9
S2Samples == <<0, WordMod - 1, 3, 9>>

\* the source scripted to yield them, as the bytes a read delivers
S2Source ==
    [scripted |-> TRUE,
     bytes |-> BytesOf(S2Samples[1]) \o BytesOf(S2Samples[2])
               \o BytesOf(S2Samples[3]) \o BytesOf(S2Samples[4])]

\* bytes the scripted source has delivered so far
S2Consumed == Len(S2Source.bytes) - Len(source.bytes)

InitS2 ==
    /\ ProgramStart
    /\ source = S2Source

\* uniform(10)
call_uniform_s2(t) == Enter(t, "uniform", "uniform", 0, 10)

\* the scenario: stir and uniform(10) against the scripted source, which is
\* read in any short reads, interrupted or not
NextS2 ==
    \/ call_stir("main")
    \/ call_uniform_s2("main")
    \/ stir_test("main")
    \/ stir_set("main")
    \/ stir_if_needed("main")
    \/ stir_if_needed_end("main")
    \/ dev_access_ok("main")
    \/ dev_access_next("main")
    \/ dev_access_none("main")
    \/ dev_open_ok("main")
    \/ dev_open_fail("main")
    \/ acquire_context_ok("main")
    \/ acquire_context_fail("main")
    \/ buf_enter("main")
    \/ buf_call_safe_read("main")
    \/ safe_read_eintr("main")
    \/ safe_read_eof("main")
    \/ safe_read_data("main")
    \/ gen_random_ok("main")
    \/ gen_random_fail("main")
    \/ buf_check_abort("main")
    \/ buf_check_return("main")
    \/ random_enter("main")
    \/ random_call_buf("main")
    \/ random_return("main")
    \/ uniform_min("main")
    \/ uniform_draw("main")
    \/ uniform_accept("main")
    \/ uniform_reject("main")

SpecS2 == InitS2 /\ [][NextS2]_vars

\* --------------------------------------------- two threads, unsynchronized
\* stir and buf up to the point where they return; stream is a plain static
\* struct, read and written with no lock or atomic (lines 34-37, 109-111),
\* so the threads' statements interleave freely
StepConcurrent(t) ==
    \/ call_stir(t)
    \/ call_buf(t)
    \/ stir_test(t)
    \/ stir_set(t)
    \/ stir_if_needed(t)
    \/ stir_if_needed_end(t)
    \/ dev_access_ok(t)
    \/ dev_access_next(t)
    \/ dev_access_none(t)
    \/ dev_open_ok(t)
    \/ dev_open_fail(t)
    \/ acquire_context_ok(t)
    \/ acquire_context_fail(t)
    \/ buf_enter(t)
    \/ buf_call_safe_read(t)
    \/ safe_read_eintr(t)
    \/ safe_read_error(t)
    \/ safe_read_eof(t)
    \/ safe_read_data(t)
    \/ gen_random_ok(t)
    \/ gen_random_fail(t)
    \/ buf_check_abort(t)
    \/ buf_check_return(t)

NextConcurrent == \E t \in Thread : StepConcurrent(t)

SpecConcurrent == Init /\ [][NextConcurrent]_vars

\* ------------------------------------------------ buf under fair scheduling
\* calls of buf alone, on the provider as it starts
NextDrain ==
    \/ call_buf("main")
    \/ buf_enter("main")
    \/ stir_if_needed("main")
    \/ stir_if_needed_end("main")
    \/ stir_test("main")
    \/ stir_set("main")
    \/ dev_access_ok("main")
    \/ dev_access_next("main")
    \/ dev_access_none("main")
    \/ dev_open_ok("main")
    \/ dev_open_fail("main")
    \/ acquire_context_ok("main")
    \/ acquire_context_fail("main")
    \/ buf_call_safe_read("main")
    \/ safe_read_eintr("main")
    \/ safe_read_error("main")
    \/ safe_read_eof("main")
    \/ safe_read_data("main")
    \/ gen_random_ok("main")
    \/ gen_random_fail("main")
    \/ buf_check_abort("main")
    \/ buf_check_return("main")

\* a read that was not interrupted: an error, end of data, or nb > 0 bytes
ReadNotInterrupted ==
    \/ safe_read_error("main")
    \/ safe_read_eof("main")
    \/ safe_read_data("main")

\* the thread keeps running, and the inner while of safe_read is not
\* interrupted by EINTR forever
SpecDrain ==
    /\ Init
    /\ [][NextDrain]_vars
    /\ WF_vars(NextDrain)
    /\ WF_vars(ReadNotInterrupted)

\* ===================================================================
\* Properties
\* ===================================================================
\* number of bytes of buffer b that a read has written
WrittenCount(b) == Cardinality({i \in 1 .. Len(b) : b[i] # Unwritten})

\* randombytes_sysrandom_buf has returned to its caller: the public caller,
\* or randombytes_sysrandom at its return statement
BufReturned(t) ==
    \/ pc[t] = "idle" /\ op[t] = "buf"
    \/ pc[t] = "random_ret"

\* C1: whenever buf(out, n) has returned (n = 0 included), the source
\* delivered exactly n bytes to it and every one of the n bytes of out is
\* written: buf never returns after delivering fewer (or more) than n bytes.
C1_BufExactSize ==
    \A t \in Thread :
        BufReturned(t) =>
            /\ Len(out[t]) = size[t]
            /\ WrittenCount(out[t]) = size[t]
            /\ Len(delivered[t]) = size[t]

\* a public buf of the largest size returned after its last read was short
C1_Witness ==
    /\ pc["main"] = "idle" /\ op["main"] = "buf"
    /\ size["main"] = MaxSize /\ readnb["main"] = 1
    /\ WrittenCount(out["main"]) = MaxSize

\* the drain loop of safe_read between two reads: the bytes delivered so far
\* are the first off bytes of out, in order, nothing else is written, and the
\* next read asks for exactly the count = size - off bytes that remain
DrainLoopConsistent(t) ==
    /\ off[t] + count[t] = size[t]
    /\ SubSeq(out[t], 1, off[t]) = delivered[t]
    /\ \A i \in (off[t] + 1) .. Len(out[t]) : out[t][i] = Unwritten

\* C2: short-read survival (POSIX).  Before every read of the drain loop the
\* write position and the remaining count describe exactly the undelivered
\* suffix; a read interrupted by EINTR changes neither them nor the buffer;
\* once the source has delivered all size bytes in positive reads, buf does
\* not abort; and when buf has returned, out is the concatenation of the
\* delivered chunks in order.
C2_ShortReadSurvival ==
    /\ [](\A t \in Thread :
            /\ pc[t] = "safe_read" => DrainLoopConsistent(t)
            /\ BufReturned(t) => out[t] = delivered[t])
    /\ [][\A t \in Thread :
            /\ (pc[t] = "safe_read" /\ pc'[t] = "safe_read" /\ readnb'[t] < 0) =>
                  /\ errno'[t] = "EINTR"
                  /\ off'[t] = off[t] /\ count'[t] = count[t]
                  /\ out'[t] = out[t] /\ delivered'[t] = delivered[t]
            /\ (pc[t] = "buf_check" /\ build # "win32" /\ readnb[t] > 0
                  /\ Len(delivered[t]) = size[t]) => ~aborted']_vars

\* a buf of the largest size returned after an interrupted read and with a
\* short last read
C2_Witness ==
    /\ pc["main"] = "idle" /\ op["main"] = "buf" /\ build = "posix"
    /\ size["main"] = MaxSize /\ errno["main"] = "EINTR" /\ readnb["main"] = 1
    /\ out["main"] = delivered["main"] /\ Len(delivered["main"]) = MaxSize

\* the last read of the drain loop failed: it returned 0 with bytes still
\* missing, or a negative value with an errno other than EINTR
ReadFailed(t) ==
    \/ readnb[t] = 0 /\ Len(delivered[t]) < size[t]
    \/ readnb[t] < 0 /\ errno[t] # "EINTR"

\* C3: entropy-read failure is fatal.  When the drain loop has handed buf
\* the result of a failed read (zero before size bytes, or negative and not
\* EINTR; first read or later), or CryptGenRandom failed, the step buf takes
\* is abort(): it does not return.
C3_ReadFailureFatal ==
    [][\A t \in Thread :
          (/\ pc[t] = "buf_check"
           /\ IF build = "win32" THEN srret[t] = 0 ELSE ReadFailed(t))
          => (aborted' /\ pc'[t] = "aborted")]_vars

\* the process aborted in a buf whose source returned 0 after one byte of two
C3_Witness ==
    /\ aborted /\ pc["main"] = "aborted" /\ build = "posix"
    /\ readnb["main"] = 0 /\ size["main"] > Len(delivered["main"])
    /\ Len(delivered["main"]) > 0

\* the public operations that need the entropy source
NeedsSource(t) ==
    \/ op[t] \in {"stir", "buf", "random"}
    \/ op[t] = "uniform" /\ upper_bound[t] >= 2

\* every answer of the current acquisition was a failure: no device of the
\* list passed the probe (POSIX), or CryptAcquireContext failed (_WIN32)
NoSourceAcquired(t) ==
    /\ Len(probes[t]) = (IF build = "win32" THEN 1 ELSE Len(devices(build)))
    /\ \A i \in 1 .. Len(probes[t]) : probes[t][i] = FALSE

\* C4: acquisition failure is fatal.  When no candidate device passed the
\* probe (POSIX) or the context acquire failed (Windows), the process has
\* aborted inside the stir or entropy-consuming call that began the
\* acquisition on the uninitialized provider: initialized was not set, no
\* read was issued and the call did not return.
C4_AcquisitionFailureFatal ==
    \A t \in Thread :
        NoSourceAcquired(t) =>
            /\ aborted /\ pc[t] = "aborted"
            /\ stream.initialized = FALSE
            /\ NeedsSource(t)
            /\ acquired[t] = 1
            /\ readdesc[t] = {}

\* random() on a POSIX build aborted after all three probes failed
C4_Witness ==
    /\ build = "posix" /\ op["main"] = "random" /\ pc["main"] = "aborted"
    /\ NoSourceAcquired("main") /\ Len(probes["main"]) > 1

\* C5: idempotent stir.  While initialized is set, no step of stir, of the
\* stir-if-needed of buf, random or uniform, or of anything else but a
\* close changes the stored handle or initialized, opens or releases a
\* handle, or enters source acquisition.
C5_IdempotentStir ==
    [][(stream.initialized /\ \A u \in Thread : pc[u] # "close") =>
          /\ stream' = stream
          /\ handles' = handles
          /\ nopen' = nopen
          /\ \A t \in Thread :
                /\ pc'[t] \notin {"init", "dev_open"}
                /\ acquired'[t] <= acquired[t]]_vars

\* a stir on the provider the first stir initialized has returned without
\* acquiring anything
C5_Witness ==
    /\ pc["main"] = "idle" /\ op["main"] = "stir"
    /\ stream.initialized /\ acquired["main"] = 0
    /\ nopen = 1 /\ Live(StreamHandle(stream, build))

\* C6: close-then-use reinitializes.  In the stir or entropy-consuming call
\* that follows a close that returned 0: buf reaches its read only after the
\* call has acquired the source anew, every read of the call went to the
\* open made by that acquisition (the latest one, never the closed one or a
\* descriptor that is not open), and once the call has returned the
\* provider is initialized again.
C6_CloseThenUseReinitializes ==
    \A t \in Thread :
        (prevclose[t] = "returned 0" /\ NeedsSource(t)) =>
            /\ (pc[t] \in {"buf_read", "safe_read", "buf_check"} \/ readdesc[t] # {}) =>
                  (acquired[t] = 1 /\ stream.initialized)
            /\ readdesc[t] \subseteq {nopen}
            /\ pc[t] = "idle" => (acquired[t] = 1 /\ stream.initialized)

\* random() after a successful close returned, having read the second open
C6_Witness ==
    /\ prevclose["main"] = "returned 0" /\ op["main"] = "random"
    /\ pc["main"] = "idle" /\ readdesc["main"] = {nopen} /\ nopen > 1

\* the provider is in the state Absent
Absent ==
    /\ stream.initialized = FALSE
    /\ build # "win32" => stream.random_data_source_fd = NoFd

\* C7: a close() whose OS close / release succeeded has returned 0 and left
\* the provider Absent (initialized false, the POSIX descriptor -1); the
\* close() issued right after a close() that returned 0 has returned -1
\* without any OS close, the provider still Absent.
C7_CloseThenCloseAgain ==
    \A t \in Thread :
        (pc[t] = "idle" /\ op[t] = "close") =>
            /\ osclose[t] = "ok" => (ret[t] = 0 /\ Absent)
            /\ ret[t] = 0 => osclose[t] = "ok"
            /\ prevclose[t] = "returned 0" =>
                  (ret[t] = -1 /\ osclose[t] = "none" /\ Absent)

\* the second of two closes in a row has returned
C7_Witness ==
    /\ pc["main"] = "idle" /\ op["main"] = "close"
    /\ prevclose["main"] = "returned 0" /\ ret["main"] = -1 /\ nopen > 0

\* C8: a close() on a provider that was never initialized has returned -1
\* without any OS close and left the state as it was at program start; and
\* a random() that follows such a close and has returned did initialize the
\* source (one acquisition, initialized set, the handle open) and returned
\* the word made of the bytes the source delivered.
C8_CloseNeverInitialized ==
    \A t \in Thread :
        /\ (pc[t] = "idle" /\ op[t] = "close" /\ nopen = 0) =>
              (ret[t] = -1 /\ osclose[t] = "none" /\ stream = StreamInit)
        /\ (/\ pc[t] = "idle" /\ op[t] = "random"
            /\ prevclose[t] = "returned -1" /\ nopen = acquired[t]) =>
              /\ acquired[t] = 1
              /\ stream.initialized
              /\ Live(StreamHandle(stream, build))
              /\ Len(delivered[t]) = SizeofR
              /\ ret[t] = WordOf(delivered[t])
              /\ ret[t] \in Word

\* random() after a close on the never-initialized provider returned the
\* largest word
C8_Witness ==
    /\ pc["main"] = "idle" /\ op["main"] = "random"
    /\ prevclose["main"] = "returned -1" /\ nopen = 1 /\ acquired["main"] = 1
    /\ stream.initialized /\ ret["main"] = WordMod - 1

\* C9: close failure is not fatal and leaves the state unchanged.  The step
\* in which the OS close / release reports failure returns -1 to the caller
\* without abort and without changing the handle or initialized; the
\* provider it leaves is still initialized (Ready).
C9_CloseFailureKeepsState ==
    /\ [](\A t \in Thread :
            (pc[t] = "idle" /\ op[t] = "close" /\ osclose[t] = "failed") =>
                (ret[t] = -1 /\ stream.initialized /\ ~aborted /\ ~Absent))
    /\ [][\A t \in Thread :
            (pc[t] = "close" /\ osclose'[t] = "failed") =>
                /\ stream' = stream
                /\ ret'[t] = -1
                /\ ~aborted'
                /\ pc'[t] = "idle"]_vars

\* a close whose OS call failed has returned -1 on a Ready provider
C9_Witness ==
    /\ pc["main"] = "idle" /\ op["main"] = "close" /\ osclose["main"] = "failed"
    /\ ret["main"] = -1 /\ stream.initialized /\ ~aborted

\* C10: uniform range.  A uniform(upper_bound) with upper_bound >= 2 that
\* has returned, whatever samples the source produced, returned a value v
\* with 0 <= v < upper_bound.
C10_UniformRange ==
    \A t \in Thread :
        (pc[t] = "idle" /\ op[t] = "uniform" /\ upper_bound[t] >= 2) =>
            (0 <= ret[t] /\ ret[t] < upper_bound[t])

\* uniform(10) returned 5 from the all-ones sample
C10_Witness ==
    /\ pc["main"] = "idle" /\ op["main"] = "uniform" /\ upper_bound["main"] = 10
    /\ r["main"] = WordMod - 1 /\ ret["main"] = 5

\* number of accepted samples (x >= m) that uniform maps to v
AcceptedPreimages(v, ub, m) ==
    Cardinality({x \in Word : x >= m /\ UniformResult(x, ub) = v})

\* C11: uniform no-bias.  For every upper_bound b >= 2 and every sample r of
\* the word type: the value r mod b has exactly as many accepted preimages
\* as the value 0, and b times that number is the number of accepted
\* samples (all words from min up), which is therefore a multiple of b.
\* As r ranges over all words, r mod b ranges over all of [0, b).
C11_UniformNoBias ==
    \A t \in Thread :
        pc[t] = "uniform_test" =>
            LET b == upper_bound[t]
                n == AcceptedPreimages(0, b, min[t])
            IN /\ n > 0
               /\ AcceptedPreimages(UniformResult(r[t], b), b, min[t]) = n
               /\ n * b = WordMod - min[t]

\* uniform(3) is about to accept the largest word
C11_Witness ==
    /\ pc["main"] = "uniform_test" /\ upper_bound["main"] = 3
    /\ r["main"] = WordMod - 1 /\ min["main"] = 1

\* C12: scenario S2.  uniform(10) against the source scripted to yield 0,
\* the all-ones word, 3, 9: min is 6; the first sample, 0, is below min and
\* so rejected; no uniform(10) returns before two samples are consumed; and
\* the one that returns with exactly two consumed (the first to return)
\* accepted the all-ones word and returns it modulo 10, which is 5.
C12_ScenarioS2 ==
    \A t \in Thread :
        (op[t] = "uniform" /\ upper_bound[t] = 10) =>
            /\ pc[t] # "uniform" => min[t] = 6
            /\ (pc[t] = "uniform_test" /\ S2Consumed = SizeofR) =>
                  (r[t] = 0 /\ r[t] < min[t])
            /\ pc[t] = "idle" =>
                  /\ S2Consumed >= 2 * SizeofR
                  /\ S2Consumed = 2 * SizeofR =>
                        (r[t] = WordMod - 1 /\ ret[t] = 5)

\* the first uniform(10) has returned 5 with two samples consumed
C12_Witness ==
    /\ pc["main"] = "idle" /\ op["main"] = "uniform" /\ upper_bound["main"] = 10
    /\ S2Consumed = 2 * SizeofR /\ ret["main"] = 5 /\ errno["main"] = "EINTR"

\* C13: degenerate bounds.  uniform(0) and uniform(1) return 0 at once: the
\* call is only ever at its entry or returned, it never aborts, it draws no
\* sample (no read, no acquisition, nothing delivered), and its one step
\* leaves the provider state, the open handles and the source as they were.
C13_UniformDegenerate ==
    /\ [](\A t \in Thread :
            (op[t] = "uniform" /\ upper_bound[t] < 2) =>
                /\ pc[t] \in {"uniform", "idle"}
                /\ ~aborted
                /\ readdesc[t] = {} /\ delivered[t] = <<>> /\ acquired[t] = 0
                /\ pc[t] = "idle" => ret[t] = 0)
    /\ [][\A t \in Thread :
            (op[t] = "uniform" /\ upper_bound[t] < 2 /\ pc[t] = "uniform") =>
                /\ pc'[t] = "idle"
                /\ stream' = stream /\ osvars' = osvars]_vars

\* uniform(0) has returned on a provider that is still uninitialized
C13_Witness ==
    /\ pc["main"] = "idle" /\ op["main"] = "uniform" /\ upper_bound["main"] = 0
    /\ ret["main"] = 0 /\ ~stream.initialized /\ handles = {}

\* the source was acquired at most once
AcquiredOnce == nopen <= 1

\* once no thread is inside initialization, every descriptor the provider
\* holds open is the one stored in the state
NoneUnreferenced ==
    (\A t \in Thread : pc[t] \notin {"init", "dev_open"}) =>
        \A e \in handles : e.h = StreamHandle(stream, build)

\* the reads of all threads' current calls went to one open handle
SameHandle == Cardinality(UNION {readdesc[t] : t \in Thread}) <= 1

\* C14: concurrent initialization converges on a single handle.  When two
\* threads call stir or buf on an uninitialized provider, under every
\* interleaving the source is acquired exactly once, no acquired descriptor
\* is overwritten or left unreferenced in the state, and both threads read
\* from the same handle.
C14_ConcurrentInitSingleHandle ==
    /\ AcquiredOnce
    /\ NoneUnreferenced
    /\ SameHandle

\* initialized implies that the stored handle is open
InitializedImpliesLive == stream.initialized => Live(StreamHandle(stream, build))

\* a thread that is about to read, or is in the drain loop, sees initialized set
NoReadWhileUninitialized ==
    \A t \in Thread : (~aborted /\ pc[t] \in {"buf_read", "safe_read"}) => stream.initialized

\* C15: provider-state invariant.  In every state reachable by a
\* single-threaded sequence of stir, buf, random, uniform and close calls,
\* the OS close succeeding or failing, initialized = true implies that the
\* stored handle refers to a live, open source, and no read is issued
\* against the handle while initialized is false.
C15_ProviderStateInvariant ==
    /\ InitializedImpliesLive
    /\ NoReadWhileUninitialized

\* the statements of initialization (init, the device open, the store of
\* initialized in stir) and of close
MutatorLabels == {"init", "dev_open", "stir_set", "close"}

\* C16: frame.  The provider state (handle and initialized) changes only in
\* a step of initialization or of close.  A call of the name operation or of
\* the factory never changes it, the open handles or the source, and never
\* acquires; name returns "sysrandom" and the factory the record of the six
\* operations.  A step of buf, random or uniform taken on an initialized
\* provider leaves handle and initialized unchanged.
C16_StateFrame ==
    /\ [](\A t \in Thread :
            /\ (pc[t] = "idle" /\ op[t] = "name") => retname[t] = "sysrandom"
            /\ (pc[t] = "idle" /\ op[t] = "implementation") =>
                  retrec[t] = ImplementationRecord
            /\ op[t] \in {"name", "implementation"} =>
                  (acquired[t] = 0 /\ readdesc[t] = {} /\ ~aborted))
    /\ [][/\ stream' # stream => \E t \in Thread : pc[t] \in MutatorLabels /\ pc'[t] # pc[t]
          /\ \A t \in Thread :
                /\ (op[t] \in {"name", "implementation"} /\ pc[t] # "idle") =>
                      (stream' = stream /\ osvars' = osvars /\ pc'[t] = "idle")
                /\ (op[t] \in {"buf", "random", "uniform"} /\ pc[t] # "idle"
                      /\ stream.initialized) =>
                      (stream' = stream /\ handles' = handles)]_vars

\* the factory has returned its record on a provider that is still untouched
C16_Witness ==
    /\ pc["main"] = "idle" /\ op["main"] = "implementation"
    /\ retrec["main"] = ImplementationRecord
    /\ stream = StreamInit /\ handles = {} /\ nopen = 0

\* the probes made so far all failed
AllFailed(p) == \A i \in 1 .. Len(p) : p[i] = FALSE

\* the probes made so far failed except the last, which passed
FirstPassed(p) == Len(p) > 0 /\ p[Len(p)] = TRUE /\ AllFailed(SubSeq(p, 1, Len(p) - 1))

\* C17: the POSIX device walk.  The list is /dev/arandom, /dev/urandom,
\* /dev/random, or /dev/random alone in blocking mode.  Devices are probed
\* in list order, one probe each; the device that is opened is the first
\* whose probe passed, every device before it was probed and failed, none
\* after it is probed or opened; and the result of acquisition is the
\* result of open on that device: the descriptor of that device stored in
\* the state, or failure (abort with -1 stored) without another probe.
C17_DeviceWalk ==
    /\ [](/\ devices("posix") = <<"/dev/arandom", "/dev/urandom", "/dev/random">>
          /\ devices("posix_blocking") = <<"/dev/random">>
          /\ \A t \in Thread :
                (build # "win32" /\ acquired[t] > 0) =>
                    /\ device[t] \in 1 .. Len(devices(build))
                    /\ CASE pc[t] = "init" ->
                              /\ AllFailed(probes[t])
                              /\ Len(probes[t]) = device[t] - 1
                         [] pc[t] = "dev_open" ->
                              /\ FirstPassed(probes[t])
                              /\ Len(probes[t]) = device[t]
                         [] pc[t] = "aborted" /\ ~stream.initialized ->
                              /\ Len(probes[t]) = device[t]
                              /\ \/ FirstPassed(probes[t])
                                 \/ AllFailed(probes[t]) /\ device[t] = Len(devices(build))
                              /\ stream.random_data_source_fd = NoFd
                              /\ handles = {}
                         [] OTHER ->
                              /\ FirstPassed(probes[t])
                              /\ Len(probes[t]) = device[t]
                              /\ Live(stream.random_data_source_fd)
                              /\ EntryOf(stream.random_data_source_fd).dev
                                    = devices(build)[device[t]]
                              /\ EntryOf(stream.random_data_source_fd).id = nopen)
    /\ [][\A t \in Thread :
            (pc[t] = "dev_open" /\ pc'[t] # "dev_open") =>
                /\ probes'[t] = probes[t] /\ device'[t] = device[t]
                /\ \/ pc'[t] = "stir_set" /\ nopen' = nopen + 1
                   \/ /\ pc'[t] = "aborted" /\ nopen' = nopen
                      /\ stream'.random_data_source_fd = NoFd]_vars

\* /dev/urandom was opened after the probe of /dev/arandom failed and its
\* own passed; /dev/random was never probed
C17_Witness ==
    /\ build = "posix" /\ pc["main"] = "stir_set"
    /\ probes["main"] = <<FALSE, TRUE>> /\ device["main"] = 2
    /\ Live(stream.random_data_source_fd)
    /\ EntryOf(stream.random_data_source_fd).dev = "/dev/urandom"

\* C18: the rejection threshold.  For every upper_bound from 2 to the
\* largest word, the min computed by uniform (the unsigned negation of
\* upper_bound reduced modulo upper_bound) equals 2^w mod upper_bound for
\* the word width w, is strictly less than upper_bound, and is strictly
\* less than half of 2^w, so fewer than half of all samples are rejected.
C18_RejectionThreshold ==
    \A t \in Thread :
        pc[t] \in {"uniform_loop", "uniform_test"} =>
            /\ upper_bound[t] \in 2 .. WordMod - 1
            /\ min[t] = WordMod % upper_bound[t]
            /\ min[t] < upper_bound[t]
            /\ 2 * min[t] < WordMod
            /\ Cardinality({x \in Word : x < min[t]}) < Cardinality({x \in Word : x >= min[t]})

\* the bound with the largest threshold: just over half the word range
C18_Witness ==
    /\ pc["main"] = "uniform_test" /\ upper_bound["main"] = (WordMod \div 2) + 1
    /\ min["main"] = (WordMod \div 2) - 1 /\ r["main"] < min["main"]

\* C19: termination of the drain loop.  If reads are not interrupted by
\* EINTR forever, every buf(out, size) that is called eventually returns or
\* aborts.  The remaining count never goes below zero; a read that delivers
\* bytes leaves it strictly smaller; an interrupted read is retried with
\* the count, the position and the buffer as they were.
C19_DrainTerminates ==
    /\ (pc["main"] = "buf") ~> (pc["main"] = "idle" \/ aborted)
    /\ [](\A t \in Thread : count[t] >= 0 /\ count[t] <= size[t])
    /\ [][\A t \in Thread :
            pc[t] = "safe_read" =>
                /\ delivered'[t] # delivered[t] =>
                      (count'[t] < count[t] /\ count'[t] >= 0
                         /\ count[t] - count'[t] = Len(delivered'[t]) - Len(delivered[t]))
                /\ (readnb'[t] < 0 /\ errno'[t] = "EINTR" /\ pc'[t] # "aborted") =>
                      /\ pc'[t] = "safe_read"
                      /\ count'[t] = count[t] /\ off'[t] = off[t] /\ out'[t] = out[t]
                      /\ delivered'[t] = delivered[t]]_vars

\* a buf of the largest size has returned after an interrupted read and
\* byte-by-byte short reads
C19_Witness ==
    /\ pc["main"] = "idle" /\ op["main"] = "buf" /\ size["main"] = MaxSize
    /\ errno["main"] = "EINTR" /\ readnb["main"] = 1 /\ count["main"] = 0
    /\ Len(delivered["main"]) = MaxSize

\* no call is in progress, or close has just been entered
BetweenCalls == ~aborted /\ \A t \in Thread : pc[t] \in {"idle", "close"}

\* C20: on POSIX, at every point between public calls of a single-threaded
\* run, initialized is true if and only if the stored descriptor is not -1,
\* so the gate of close on the descriptor agrees with initialized.  At most
\* one descriptor opened by the provider is outstanding: at most one is
\* open and it is the stored one; the device is opened only when the stored
\* descriptor is -1 and nothing is open; and the stored descriptor goes
\* back to -1 only by a close whose OS call succeeded.
C20_DescriptorAgreesWithInitialized ==
    /\ [](build # "win32" =>
            /\ BetweenCalls =>
                  /\ stream.initialized <=> stream.random_data_source_fd # NoFd
                  /\ CloseGate(stream, build) <=> stream.initialized
            /\ Cardinality(handles) <= 1
            /\ \A e \in handles : e.h = stream.random_data_source_fd)
    /\ [][build # "win32" =>
            /\ nopen' # nopen =>
                  (stream.random_data_source_fd = NoFd /\ handles = {}
                     /\ ~stream.initialized)
            /\ (stream.random_data_source_fd # NoFd
                  /\ stream'.random_data_source_fd = NoFd) =>
                  \E t \in Thread : pc[t] = "close" /\ osclose'[t] = "ok"]_vars

\* the device has been opened a second time, after a close, and one
\* descriptor is open
C20_Witness ==
    /\ build = "posix" /\ BetweenCalls /\ nopen = 2
    /\ stream.initialized /\ stream.random_data_source_fd # NoFd
    /\ Cardinality(handles) = 1
====
